---- MODULE Spec2Model ----
(***************************************************************************)
(* A model of the choicetask stimulus-presentation and response-timing     *)
(* engine: PsychTask (psychtaskclass.py), ChoiceTask (choicetaskclass.py)  *)
(* and the TrialEvent family (exptobj.py).                                 *)
(*                                                                         *)
(* Three specifications share the variables:                               *)
(*   Spec      the session controller and trial sequencer; a Stimulus Unit *)
(*             run is one step whose result is drawn from the results      *)
(*             TrialEvent.run can produce;                                 *)
(*   SpecUnit  one Stimulus Unit at a time, with its polling loop, the     *)
(*             event queue and the clock.                                  *)
(*   SpecDialog  main() from the accepted settings dialog to the           *)
(*             construction of the task.                                   *)
(*                                                                         *)
(* Time is counted in tenths of a second.  Text is a sequence of chunks:   *)
(* a chunk is either the comma "," or a piece of text holding no comma.    *)
(***************************************************************************)
EXTENDS Integers, Sequences, FiniteSets, TLC

\* ------------------------------------------------------------------ bounds
MaxBlocks == 2
TrialsPerBlock == 2
MaxKeyRT == 2
MaxLate == 1
LongBlockTrials == 3
MaxWritten == 1

\* ------------------------------------------------------- program constants
FixationLimit == 5
TargetLimit == 60
FeedbackLimit == 20
PreBlockLimit == 20
ITIMin == 8
ITIMax == 13
NoLimit == -1

Allowed == {"u", "i", "o", "p"}
Conditions == {"Easy", "Hard"}
BlockFeedback == TRUE
StimDiameter == 60
SessionId == <<"P100">>
Tags == {<<"Default">>, <<"a", ",", "b">>}
\* the keys pressed in the model
Keyboard == {"u", "i", " ", "q"}

\* ------------------------------------------------------------------- text
Comma == ","

\* str(n) for an integer
Str(n) == <<ToString(n)>>

\* str(b) for int(bool)
BoolInt(b) == IF b THEN 1 ELSE 0

RECURSIVE Join(_)
\* ",".join(fields)
Join(fields) ==
    IF fields = <<>> THEN <<>>
    ELSE IF Len(fields) = 1 THEN Head(fields)
    ELSE Head(fields) \o <<Comma>> \o Join(Tail(fields))

HeaderColumns ==
    << <<"DATE">>, <<"TIME">>, <<"ID">>, <<"BLOCK">>, <<"TRIAL">>, <<"STIM">>,
       <<"XLOC">>, <<"COND">>, <<"CRESP">>, <<"RESP">>, <<"RT">>, <<"ACC">>,
       <<"MAXTRIAL">>, <<"MAXBLOCK">>, <<"TRIALFEEDBACK">>, <<"BLOCKFEEDBACK">>,
       <<"STIMSIZE">>, <<"SCRNWIDTH">>, <<"SCRNHEIGHT">>, <<"VERSION">>, <<"TAG">> >>

\* the header run_trial sets
TrialHeader == Join(HeaderColumns)

\* the header __init__ sets
InitHeader ==
    <<"WARNING: NO HEADER SET", Comma, " TO FIX", Comma, " SET self.header IN runBlock()">>

\* ------------------------------------------------------- responses of run()
StrResp(s) == [kind |-> "str", s |-> s, d |-> 0]
FloatResp(d) == [kind |-> "float", s |-> "", d |-> d]
NoneResp == [kind |-> "None", s |-> "", d |-> 0]
QuitResp == StrResp("quit")

\* ------------------------------------------------------------- trial list
\* the range of the Trials Per Block field of the dialog
TrialsMin == 4
TrialsMax == 60

\* if v_trials % 4: v_trials = v_trials + 2
CorrectedTrials(v) == IF v % 4 # 0 THEN v + 2 ELSE v

EasyStim == << <<"Red", "Easy", "u">>, <<"Green", "Easy", "i">>,
               <<"Blue", "Easy", "o">>, <<"Yellow", "Easy", "p">> >>
HardStim == << <<"Red", "Hard", "u">>, <<"Green", "Hard", "i">>,
               <<"Blue", "Hard", "o">>, <<"Yellow", "Hard", "p">> >>
EasyOffsets == <<0, 0, 0, 0, 0>>
HardOffsets == <<-2, -1, 0, 1, 2>>

\* main(): my_stimuli and pos_offsets repeated iterations times, and one
\* offset popped from the end of pos_offsets for each stimulus
BuildStimuli(v_cond, iterations) ==
    LET stim == IF v_cond = "Easy" THEN EasyStim ELSE HardStim
        offs == IF v_cond = "Easy" THEN EasyOffsets ELSE HardOffsets
        n == Len(offs) * iterations
    IN  [i \in 1..(Len(stim) * iterations) |->
            stim[((i - 1) % Len(stim)) + 1] \o <<offs[((n - i) % Len(offs)) + 1]>>]

\* my_stimuli for the four trials per block of the default configuration
MyStimuli(v_cond) == BuildStimuli(v_cond, 1)

OtherCondition(c) == IF c = "Easy" THEN "Hard" ELSE "Easy"

\* the trial list handed to the constructor: the first TrialsPerBlock
\* specifications main() builds for the condition, and one specification of
\* the other condition
InitTrialList(c) ==
    SubSeq(MyStimuli(c), 1, TrialsPerBlock) \o <<MyStimuli(OtherCondition(c))[4]>>

\* a longer list of the condition: of the eight specifications main() builds
\* for two iterations, the first ones a pressed key can answer
LongTrialList(c) ==
    LET keyed == SelectSeq(BuildStimuli(c, 2), LAMBDA info : info[3] \in Keyboard)
    IN  SubSeq(keyed, 1, LongBlockTrials)

\* a position offset of None in a trial specification
NoneOffset == -99

\* a list whose second specification carries no position offset
BadTrialList(c) ==
    <<MyStimuli(c)[1], [MyStimuli(c)[2] EXCEPT ![4] = NoneOffset]>>

\* a list holding an empty specification and one of three fields
OddTrialList(c) ==
    << <<>>, SubSeq(MyStimuli(c)[2], 1, 3), MyStimuli(c)[1] >>

\* a shuffle that repeats the first specification
ShufflesRepeating(list) == {[i \in 1..Len(list) |-> list[1]]}

\* rng.shuffle(self.trial_list)
Shuffles(list) ==
    {[i \in 1..Len(list) |-> list[p[i]]] : p \in Permutations(1..Len(list))}


\* ---------------------------------------------------------------- state
VARIABLES
    pc,                \* position in run_session / run_block / run_trial
    a_block,           \* run_session: number of run_block calls made
    idx,               \* run_block: position of the for loop in trial_list
    trial_list, condition, blocks, trial_feedback, overwrite, tag,
    main_surface,      \* self.surface: a pygame surface (TRUE) or None
    setup,             \* position in main(): dialog, corrected, built, running
    v_entered,         \* the trials per block entered in the dialog
    v_trials,          \* main(): v_trials
    my_stimuli,        \* main(): my_stimuli
    current_block, current_trial, quit_now, datalist, block_rt, block_acc,
    header,
    response, rt, outcome,            \* locals of run_trial
    block_rt_avg, block_acc_percent,  \* locals of run_block
    unitName, unitResp, nUnits,       \* the Stimulus Unit run last, what its
                                      \* run() returned, and how many have run
    disk, found, saves, warned,       \* the record file, what save_data found
                                      \* in its place, the save_data calls
                                      \* made, the data-loss warning
    \* one Stimulus Unit (TrialEvent) and its environment
    phase,             \* idle, constructed, poll, frame, returned, raised
    kind, surface, params, stopinfo, paramsOK,
    elapsed,           \* timeit.default_timer() - self.star_time
    setup_done, drawn, flipped,
    resp, run_rt,      \* what run() returns
    respAt,            \* when the event that ended the loop had arrived
    queue,             \* the pygame event queue
    shift,             \* pygame.key.get_mods() & KMOD_SHIFT
    \* run_trial: the conversion of the reaction time
    rt_float,          \* the float run() returned, in seconds
    rt_ms,             \* int(rt * 1000.0)
    \* main(): the parameter dialog
    form_ok,           \* ParamForm.ok
    flagged,           \* a text field's label carries an error message
    dismissed,         \* how the dialog was closed: ok, cancel, window
    go_flight,         \* main(): go_flight
    \* main(): the configuration file
    ini_file,          \* mhpchoicetask.ini as found on disk
    ini_config,        \* what load_config_file returned
    ini_read,          \* how many options main has read from it
    ini_raised,        \* a read raised NoOptionError
    \* run_trial: the display offset of one trial specification
    norm_pc,           \* idle, spec, scaled, written
    norm_k,            \* the offset of the trial specification
    norm_d,            \* self.stim_diameter
    norm_x,            \* x_offset after x_offset *= self.stim_diameter
    norm_loc           \* the XLOC field of the trial record

vars == <<pc, a_block, idx, trial_list, condition, blocks, trial_feedback,
          overwrite, tag, main_surface, setup, v_entered, v_trials, my_stimuli,
          current_block, current_trial, quit_now, datalist,
          block_rt, block_acc, header, response, rt, outcome, block_rt_avg,
          block_acc_percent, unitName, unitResp, nUnits, disk, found, saves,
          warned, phase, kind, surface, params, stopinfo, paramsOK, elapsed,
          setup_done, drawn, flipped, resp, run_rt, respAt, queue, shift,
          rt_float, rt_ms, form_ok, flagged, dismissed, go_flight,
          ini_file, ini_config, ini_read, ini_raised,
          norm_pc, norm_k, norm_d, norm_x, norm_loc>>

\* the state of the parts of the program modelled on their own
formVars == <<form_ok, flagged, dismissed, go_flight>>
iniVars == <<ini_file, ini_config, ini_read, ini_raised>>
normVars == <<norm_pc, norm_k, norm_d, norm_x, norm_loc>>
auxVars == <<rt_float, rt_ms, formVars, iniVars, normVars>>

sessionVars == <<pc, a_block, idx, trial_list, condition, blocks, trial_feedback,
                 overwrite, tag, main_surface, setup, v_entered, v_trials, my_stimuli,
                 current_block, current_trial, quit_now, datalist,
                 block_rt, block_acc, header, response, rt, outcome, block_rt_avg,
                 block_acc_percent, unitName, unitResp, nUnits, disk, found, saves,
                 warned, auxVars>>

stimVars == <<phase, kind, surface, params, stopinfo, paramsOK, elapsed,
              setup_done, drawn, flipped, resp, run_rt, respAt, queue, shift>>

NoFile == << <<"no file">> >>
OldLines == << <<"old header">>, <<"old row">> >>
NoValue == "-"
NoTime == -1
ScreenWidth == 2560
ScreenHeight == 1440
Version == <<"version">>
TheDate == <<"11-03-2026">>
TheTime == <<"01:50:00 PM">>

\* --------------------------------------------------------- TrialEvent.run
\* The responses run() of a valid unit can return: the quit sentinel, an
\* accepted key, or (time-limited units) the elapsed duration.
RunResponses(keys, limit) ==
    {QuitResp} \cup {StrResp(k) : k \in keys \cap Keyboard}
       \cup (IF limit = NoLimit THEN {}
             ELSE {FloatResp(d) : d \in (limit + 1)..(limit + MaxLate)})

\* The reaction times run() can return with a response.
RunTimes(r) ==
    IF r.kind = "float" THEN {r.d}
    ELSE IF r.kind = "None" THEN {NoTime}
    ELSE 1..MaxKeyRT

\* ---------------------------------------------------------- run_trial
\* the counter left as it is
AdvanceTrialStuck(n) == n

\* the trial counter advanced by two
AdvanceTrialTwice(n) == n + 2

\* self.current_trial += 1
AdvanceTrial(n) == n + 1

\* the feedback shown whatever the setting
AfterScoringFeedback(tf) == "feedback"

\* if self.trial_feedback: the feedback unit, else on to the record
AfterScoring(tf) == IF tf THEN "feedback" ELSE "record"

\* rt = int(rt * 1000.0), rt in tenths of a second
RTms(t) == (t * 1000) \div 10

\* the quit sentinel not recognised
IsQuitNever(r) == FALSE

\* if response == "quit"
IsQuit(r) == r = QuitResp

\* no response judged correct
JudgeNothingCorrect(r, correct_resp) == "Incorrect"

\* any key judged correct
JudgeAnyKeyCorrect(r, correct_resp) ==
    IF r.kind = "str" THEN "Correct" ELSE "Incorrect"

\* response == correct_resp
JudgeOutcome(r, correct_resp) ==
    IF r = StrResp(correct_resp) THEN "Correct" ELSE "Incorrect"

\* self.block_rt.append(rt) for a correct response only
UpdateBlockRT(list, oc, ms) ==
    IF oc = "Correct" THEN Append(list, ms) ELSE list

\* the accuracy list appended to for a correct response only
UpdateBlockAccCorrectOnly(list, oc) ==
    IF oc = "Correct" THEN Append(list, 1) ELSE list

\* self.block_acc.append(int(outcome == "Correct"))
UpdateBlockAcc(list, oc) == Append(list, BoolInt(oc = "Correct"))

\* the response recorded as it came
NormalizeNothing(r) == IF r.kind = "str" THEN <<r.s>> ELSE <<ToString(r.d)>>

\* if type(response) is not str: response = ""
NormalizeResponse(r) == IF r.kind = "str" THEN <<r.s>> ELSE <<>>

\* trial_data = map(str, trial_data)
\* trial_data: x_offset // self.stim_diameter
NormalizedOffsetRaw(x, d) == x
NormalizedOffset(x, d) == x \div d

TrialData(trial_info, x_offset, r, ms, oc) ==
    << TheDate, TheTime, SessionId, Str(current_block), Str(current_trial),
       <<trial_info[1]>>, Str(NormalizedOffset(x_offset, StimDiameter)), <<trial_info[2]>>,
       <<trial_info[3]>>, NormalizeResponse(r), Str(ms), <<oc>>,
       Str(Len(trial_list)), Str(blocks), Str(BoolInt(trial_feedback)),
       Str(BoolInt(BlockFeedback)), Str(StimDiameter), Str(ScreenWidth),
       Str(ScreenHeight), Version, tag >>

\* x_offset *= self.stim_diameter on a specification of four elements whose
\* offset is None
OffsetError(trial_info) ==
    /\ trial_info # <<>>
    /\ Len(trial_info) = 4
    /\ trial_info[4] = NoneOffset

\* the condition of the specification not looked at
AcceptedAnyCondition(trial_info) ==
    /\ trial_info # <<>>
    /\ Len(trial_info) = 4

\* trial_info and len(trial_info) == 4 and condition == self.condition
Accepted(trial_info) ==
    /\ trial_info # <<>>
    /\ Len(trial_info) = 4
    /\ trial_info[2] = condition

\* ---------------------------------------------------------- run_block
RECURSIVE Sum(_)
Sum(list) == IF list = <<>> THEN 0 ELSE Head(list) + Sum(Tail(list))

\* a / b truncated to an integer; ZeroDivisionError stands for the exception
ZeroDivisionError == -1
Div(a, b) == IF b = 0 THEN ZeroDivisionError ELSE a \div b

\* block_rt_avg = int(sum(self.block_rt) / len(self.block_rt)), 0 if empty
MeanRT(list) == IF Len(list) = 0 THEN 0 ELSE Div(Sum(list), Len(list))

\* the accuracy computed without the guard for an empty list
AccPercentUnguarded(list) == Div(Sum(list) * 100, Len(list))

\* block_acc = int(float(sum) / float(len) * 100), 0 if empty
AccPercent(list) == IF list # <<>> THEN Div(Sum(list) * 100, Len(list)) ELSE 0

\* the block counter advanced by two
AdvanceBlockTwice(n) == n + 2

\* self.current_block += 1
AdvanceBlock(n) == n + 1

\* the trials gone through whatever the quit flag
BreaksLoopNever(q) == FALSE

\* for atrial in self.trial_list: if self.quit_now: break
BreaksLoop(q) == q

\* a block run whatever the quit flag
SkipsBlockNever(q) == FALSE

\* if self.quit_now: return
SkipsBlock(q) == q

\* the lists carried over into the next block
KeepStats(list) == list

\* self.block_rt = [] ; self.block_acc = []
ResetStats(list) == <<>>


\* ---------------------------------------------------------- save_data
\* a file always opened for writing
SaveModeWrite(exists, ow) == "w"

\* mode = "w"; if os.path.exists(out_filename) and not self.overwrite: "a"
SaveMode(exists, ow) == IF exists /\ ~ow THEN "a" ELSE "w"

\* the lines save_data writes, in order
LinesToWrite(mode, hdr, rows) ==
    (IF mode = "w" THEN <<hdr>> ELSE <<>>)
       \o [i \in 1..Len(rows) |-> Join(rows[i])]

\* the IOError handler keeping silent
DataLossSilent == FALSE

\* except IOError: log.error and mbox_warning tell of the data loss
DataLossNotice == TRUE

\* what open(out_filename, mode) starts from
Opened(mode, old) == IF mode = "a" /\ old # NoFile THEN old ELSE <<>>

\* ------------------------------------------------- Stimulus Unit
MaxLimit == 1
MaxFrame == 1
MaxQueue == 2
MaxElapsed == MaxLimit + MaxFrame

Stale == -1
NoParams == [none |-> TRUE, keys |-> {}, isfile |-> FALSE]
EmptyParams == [none |-> FALSE, keys |-> {}, isfile |-> FALSE]
NoStopinfo == [given |-> FALSE, haskeys |-> FALSE, keypress |-> {}, timelimit |-> NoLimit]

Kinds == {"Text", "Multiline", "Circle", "Picture"}

\* the params dictionaries handed to a constructor: None, {}, or one required key
ParamInputs ==
    {NoParams}
      \cup {[none |-> FALSE, keys |-> K, isfile |-> FALSE] : K \in {{}, {"message"}, {"picfile"}}}
      \cup {[none |-> FALSE, keys |-> {"picfile"}, isfile |-> TRUE]}

\* the stopinfo dictionaries handed to a constructor
StopInputs ==
    {NoStopinfo}
      \cup {[given |-> TRUE, haskeys |-> hk, keypress |-> IF hk THEN Allowed ELSE {},
             timelimit |-> tl] :
               hk \in BOOLEAN, tl \in {NoLimit} \cup 0..MaxLimit}

\* stopinfo={"keypress": self.allowed, "timelimit": ...}
TargetStop == [given |-> TRUE, haskeys |-> TRUE, keypress |-> Allowed, timelimit |-> MaxLimit]

\* a stopinfo that accepts the character Shift+X types, with a time limit of 0
ChordStop == [given |-> TRUE, haskeys |-> TRUE, keypress |-> {"X"}, timelimit |-> 0]

\* pygame events: the key pressed and the character it produced
NoEvent == [type |-> "NOEVENT", key |-> "", unicode |-> "", at |-> NoTime]
Upper(k) == IF k = "u" THEN "U" ELSE IF k = "x" THEN "X" ELSE k
PressedKeys == {"u", "x"}
KeyDown(k, sh, t) ==
    [type |-> "KEYDOWN", key |-> k, unicode |-> IF sh THEN Upper(k) ELSE k, at |-> t]
QuitEvent(t) == [type |-> "QUIT", key |-> "", unicode |-> "", at |-> t]

\* validation that does not ask for a message
TextValidateNoMessage(sf, pr) ==
    IF ~sf THEN "invalid"
    ELSE IF pr.none \/ pr.keys = {} THEN "invalid"
    ELSE "ok"

\* validate_params of each kind: "ok", "invalid" or "raise" (an exception)
TextValidate(sf, pr) ==
    IF ~sf THEN "invalid"
    ELSE IF pr.none \/ pr.keys = {} THEN "invalid"
    ELSE IF "message" \notin pr.keys THEN "invalid"
    ELSE "ok"

CircleValidate(sf, pr) ==
    IF ~sf THEN "invalid"
    ELSE IF pr.none THEN "raise"
    ELSE "ok"

PictureValidate(sf, pr) ==
    IF ~sf THEN "invalid"
    ELSE IF pr.none THEN "raise"
    ELSE IF "picfile" \notin pr.keys THEN "invalid"
    ELSE IF ~pr.isfile THEN "invalid"
    ELSE "ok"

ValidateParams(k, sf, pr) ==
    CASE k = "Text" -> TextValidate(sf, pr)
      [] k = "Multiline" -> TextValidate(sf, pr)
      [] k = "Circle" -> CircleValidate(sf, pr)
      [] k = "Picture" -> PictureValidate(sf, pr)

\* a response that ends the loop of run(): if resp
Truthy(r) == (r.kind = "str" /\ r.s # "") \/ (r.kind = "float" /\ r.d # 0)

\* ready_to_stop that answers to an allowed key whatever the stopinfo
ReadyToStopAnyUnit(ev, sh, si, el) ==
    IF ev.type = "QUIT" THEN QuitResp
    ELSE IF ev.type = "KEYDOWN" /\ ev.key = "x" /\ sh THEN QuitResp
    ELSE IF ev.type = "KEYDOWN" /\ ev.unicode \in Allowed
         THEN StrResp(ev.unicode)
    ELSE IF si.given /\ si.timelimit # NoLimit /\ el > si.timelimit
         THEN FloatResp(el)
    ELSE StrResp("")

\* ready_to_stop that stops as soon as the limit is reached
ReadyToStopAtLimit(ev, sh, si, el) ==
    IF ev.type = "QUIT" THEN QuitResp
    ELSE IF ev.type = "KEYDOWN" /\ ev.key = "x" /\ sh THEN QuitResp
    ELSE IF si.given /\ si.haskeys /\ ev.type = "KEYDOWN" /\ ev.unicode \in si.keypress
         THEN StrResp(ev.unicode)
    ELSE IF si.given /\ si.timelimit # NoLimit /\ el >= si.timelimit
         THEN FloatResp(el)
    ELSE StrResp("")

\* ready_to_stop that never looks at the time limit
ReadyToStopNoTimeout(ev, sh, si, el) ==
    IF ev.type = "QUIT" THEN QuitResp
    ELSE IF ev.type = "KEYDOWN" /\ ev.key = "x" /\ sh THEN QuitResp
    ELSE IF si.given /\ si.haskeys /\ ev.type = "KEYDOWN" /\ ev.unicode \in si.keypress
         THEN StrResp(ev.unicode)
    ELSE StrResp("")

\* ready_to_stop for the polled event ev
ReadyToStop(ev, sh, si, el) ==
    IF ev.type = "QUIT" THEN QuitResp
    ELSE IF ev.type = "KEYDOWN" /\ ev.key = "x" /\ sh THEN QuitResp
    ELSE IF si.given /\ si.haskeys /\ ev.type = "KEYDOWN" /\ ev.unicode \in si.keypress
         THEN StrResp(ev.unicode)
    ELSE IF si.given /\ si.timelimit # NoLimit /\ el > si.timelimit
         THEN FloatResp(el)
    ELSE StrResp("")

\* the params dictionaries of the units run_session, run_block and run_trial build
PictureParams == [none |-> FALSE, keys |-> {"picfile"}, isfile |-> TRUE]
MessageParams == [none |-> FALSE, keys |-> {"message"}, isfile |-> FALSE]
CircleParams == [none |-> FALSE, keys |-> {"color"}, isfile |-> FALSE]

\* what run() of a unit built on self.surface returns: (None, None) when the
\* validation failed
UnitResults(k, pr, keys, limit) ==
    IF ValidateParams(k, main_surface, pr) = "ok"
    THEN RunResponses(keys, limit)
    ELSE {NoneResp}

\* ------------------------------------------------------------------ Init
\* The constructor's arguments.  Sessions of one block take every
\* combination; longer sessions are of the Hard condition and keep the
\* default overwrite flag and tag.  A session without a surface, with the
\* longer list, with the list lacking an offset or with the list of odd
\* specifications is a one-block session of the Hard condition with the
\* defaults.
Configs ==
    {c \in [condition : Conditions, blocks : 1..MaxBlocks,
            trial_feedback : BOOLEAN, overwrite : BOOLEAN, tag : Tags,
            surface : BOOLEAN, list : {"main", "long", "bad", "odd"}] :
        /\ c.blocks > 1 =>
              (c.condition = "Hard" /\ ~c.overwrite /\ c.tag = <<"Default">>)
        /\ (~c.surface \/ c.list # "main") =>
              /\ c.condition = "Hard" /\ c.blocks = 1 /\ ~c.trial_feedback
              /\ ~c.overwrite /\ c.tag = <<"Default">>
              /\ (c.surface \/ c.list = "main")}

InitUnit ==
    /\ phase = "idle"
    /\ kind = NoValue
    /\ surface = FALSE
    /\ params = NoParams
    /\ stopinfo = NoStopinfo
    /\ paramsOK = FALSE
    /\ elapsed = 0
    /\ setup_done = FALSE
    /\ drawn = FALSE
    /\ flipped = FALSE
    /\ resp = NoneResp
    /\ run_rt = NoTime
    /\ respAt = NoTime
    /\ queue = <<>>
    /\ shift = FALSE

InitSession(c) ==
    /\ pc = "instructions"
    /\ a_block = 0
    /\ idx = 0
    /\ condition = c.condition
    /\ blocks = c.blocks
    /\ trial_feedback = c.trial_feedback
    /\ overwrite = c.overwrite
    /\ tag = c.tag
    /\ main_surface = c.surface
    /\ trial_list = CASE c.list = "main" -> InitTrialList(condition)
                      [] c.list = "long" -> LongTrialList(condition)
                      [] c.list = "bad" -> BadTrialList(condition)
                      [] c.list = "odd" -> OddTrialList(condition)
    /\ current_block = 0
    /\ current_trial = 0
    /\ quit_now = FALSE
    /\ datalist = <<>>
    /\ block_rt = <<>>
    /\ block_acc = <<>>
    /\ header = InitHeader
    /\ response = NoneResp
    /\ rt = 0
    /\ outcome = NoValue
    /\ block_rt_avg = 0
    /\ block_acc_percent = 0
    /\ unitName = NoValue
    /\ unitResp = NoneResp
    /\ nUnits = 0
    /\ disk = NoFile
    /\ found = NoFile
    /\ saves = 0
    /\ warned = FALSE

\* main() has built the list and constructed the task
InitLaunch ==
    /\ setup = "running"
    /\ v_entered = TrialsMin
    /\ v_trials = TrialsMin
    /\ my_stimuli = MyStimuli(condition)

\* no reaction time is being converted
ConversionIdle ==
    /\ rt_float = NoValue
    /\ rt_ms = NoTime

\* no parameter dialog is shown
FormIdle ==
    /\ form_ok = TRUE
    /\ flagged = FALSE
    /\ dismissed = NoValue
    /\ go_flight = FALSE

\* a configuration: whether it came from the file, and the options a read
\* of its USER section finds
NoConfig == [loaded |-> FALSE, from_file |-> FALSE, options |-> {}]

\* no configuration file: the file a read finds nothing in
AbsentFile == [exists |-> FALSE, user |-> FALSE, options |-> {}, defaults |-> {}]

\* no configuration is being loaded
ConfigIdle ==
    /\ ini_file = AbsentFile
    /\ ini_config = NoConfig
    /\ ini_read = 0
    /\ ini_raised = FALSE

\* no offset is being normalized
OffsetIdle ==
    /\ norm_pc = "idle"
    /\ norm_k = 0
    /\ norm_d = StimDiameter
    /\ norm_x = 0
    /\ norm_loc = 0

\* the parts modelled on their own are at rest
InitAux == ConversionIdle /\ FormIdle /\ ConfigIdle /\ OffsetIdle

Init == (\E c \in Configs : InitSession(c)) /\ InitUnit /\ InitLaunch /\ InitAux

\* a Stimulus Unit ran and returned r
UnitRan(name, r) ==
    /\ unitName' = name
    /\ unitResp' = r
    /\ nUnits' = nUnits + 1

dialogVars == <<setup, v_entered, v_trials, my_stimuli>>
config == <<condition, blocks, trial_feedback, overwrite, tag, main_surface, dialogVars,
            auxVars>>
trialLocals == <<response, rt, outcome>>
blockLocals == <<block_rt_avg, block_acc_percent>>
unitVars == <<unitName, unitResp, nUnits>>
fileVars == <<disk, found, saves, warned>>

\* the loop over the blocks left after the first run_block
BlocksLeftOnce(n) == n < 1

\* for a_block in range(self.blocks): n calls made, more to make
BlocksLeft(n) == n < blocks

\* run_session: the instructions screen
Instructions ==
    /\ pc = "instructions"
    /\ \E r \in UnitResults("Picture", PictureParams, {" "}, NoLimit) :
          UnitRan("instructions", r)
    /\ pc' = "blocks"
    /\ UNCHANGED <<a_block, idx, trial_list, config, current_block, current_trial,
                   quit_now, datalist, block_rt, block_acc, header, trialLocals,
                   blockLocals, fileVars>>
    /\ UNCHANGED stimVars

\* run_block called with the quit flag set
RunBlockSkip ==
    /\ pc = "blocks"
    /\ BlocksLeft(a_block)
    /\ SkipsBlock(quit_now)
    /\ block_rt' = ResetStats(block_rt)
    /\ block_acc' = ResetStats(block_acc)
    /\ a_block' = a_block + 1
    /\ UNCHANGED <<pc, idx, trial_list, config, current_block, current_trial,
                   quit_now, datalist, header, trialLocals, blockLocals,
                   unitVars, fileVars>>
    /\ UNCHANGED stimVars

\* run_block up to the end of the pre-block mask
RunBlockStart ==
    /\ pc = "blocks"
    /\ BlocksLeft(a_block)
    /\ ~SkipsBlock(quit_now)
    /\ block_rt' = ResetStats(block_rt)
    /\ block_acc' = ResetStats(block_acc)
    /\ trial_list' \in Shuffles(trial_list)
    /\ current_block' = AdvanceBlock(current_block)
    /\ \E r \in UnitResults("Text", MessageParams, {}, PreBlockLimit) :
          UnitRan("preblock", r)
    /\ idx' = 1
    /\ pc' = "trials"
    /\ UNCHANGED <<a_block, config, current_trial, quit_now, datalist, header,
                   trialLocals, blockLocals, fileVars>>
    /\ UNCHANGED stimVars

\* run_trial: x_offset *= self.stim_diameter raises TypeError for an offset of
\* None; nothing in run_block, run_session or main() catches it
TrialRaise ==
    /\ pc = "trials"
    /\ idx <= Len(trial_list)
    /\ ~BreaksLoop(quit_now)
    /\ OffsetError(trial_list[idx])
    /\ pc' = "raised"
    /\ UNCHANGED <<a_block, idx, trial_list, config, current_block, current_trial,
                   quit_now, datalist, block_rt, block_acc, header, trialLocals,
                   blockLocals, unitVars, fileVars>>
    /\ UNCHANGED stimVars

\* run_trial with a specification that is not accepted
TrialSkip ==
    /\ pc = "trials"
    /\ idx <= Len(trial_list)
    /\ ~BreaksLoop(quit_now)
    /\ ~OffsetError(trial_list[idx])
    /\ ~Accepted(trial_list[idx])
    /\ idx' = idx + 1
    /\ UNCHANGED <<pc, a_block, trial_list, config, current_block, current_trial,
                   quit_now, datalist, block_rt, block_acc, header, trialLocals,
                   blockLocals, unitVars, fileVars>>
    /\ UNCHANGED stimVars

\* run_trial up to the end of the fixation
TrialFixation ==
    /\ pc = "trials"
    /\ idx <= Len(trial_list)
    /\ ~BreaksLoop(quit_now)
    /\ ~OffsetError(trial_list[idx])
    /\ Accepted(trial_list[idx])
    /\ current_trial' = AdvanceTrial(current_trial)
    /\ \E r \in UnitResults("Text", MessageParams, {}, FixationLimit) :
          UnitRan("fixation", r)
    /\ pc' = "target"
    /\ UNCHANGED <<a_block, idx, trial_list, config, current_block, quit_now,
                   datalist, block_rt, block_acc, header, trialLocals,
                   blockLocals, fileVars>>
    /\ UNCHANGED stimVars

\* run_trial: the target stimulus, the quit check and the scoring
TrialTarget ==
    /\ pc = "target"
    /\ \E r \in UnitResults("Circle", CircleParams, Allowed, TargetLimit) :
       \E t \in RunTimes(r) :
          LET ms == RTms(t)
              oc == JudgeOutcome(r, trial_list[idx][3])
          IN  /\ UnitRan("target", r)
              /\ IF t = NoTime
                 THEN \* int(rt * 1000.0) raises TypeError for rt = None
                      /\ pc' = "raised"
                      /\ UNCHANGED <<quit_now, idx, block_rt, block_acc, trialLocals>>
                 ELSE IF IsQuit(r)
                 THEN /\ quit_now' = TRUE
                      /\ pc' = "trials"
                      /\ idx' = idx + 1
                      /\ UNCHANGED <<block_rt, block_acc, trialLocals>>
                 ELSE /\ response' = r
                      /\ rt' = ms
                      /\ outcome' = oc
                      /\ block_rt' = UpdateBlockRT(block_rt, oc, ms)
                      /\ block_acc' = UpdateBlockAcc(block_acc, oc)
                      /\ pc' = AfterScoring(trial_feedback)
                      /\ UNCHANGED <<quit_now, idx>>
    /\ UNCHANGED <<a_block, trial_list, config, current_block, current_trial,
                   datalist, header, blockLocals, fileVars>>
    /\ UNCHANGED stimVars

\* run_trial: the trial feedback
TrialFeedback ==
    /\ pc = "feedback"
    /\ \E r \in UnitResults("Text", MessageParams, {" "}, FeedbackLimit) :
          UnitRan("feedback", r)
    /\ pc' = "record"
    /\ UNCHANGED <<a_block, idx, trial_list, config, current_block, current_trial,
                   quit_now, datalist, block_rt, block_acc, header, trialLocals,
                   blockLocals, fileVars>>
    /\ UNCHANGED stimVars

\* run_trial: the record of the trial
TrialRecord ==
    /\ pc = "record"
    /\ header' = TrialHeader
    /\ LET trial_info == trial_list[idx]
           x_offset == trial_info[4] * StimDiameter
       IN  datalist' = Append(datalist, TrialData(trial_info, x_offset, response, rt, outcome))
    /\ pc' = "iti"
    /\ UNCHANGED <<a_block, idx, trial_list, config, current_block, current_trial,
                   quit_now, block_rt, block_acc, trialLocals, blockLocals,
                   unitVars, fileVars>>
    /\ UNCHANGED stimVars

\* run_trial: the inter-trial interval, and the return to run_block
TrialITI ==
    /\ pc = "iti"
    /\ \E iti_duration \in {ITIMin, ITIMax} :
          \E r \in UnitResults("Text", MessageParams, {}, iti_duration) :
             UnitRan("iti", r)
    /\ response' = NoneResp
    /\ rt' = 0
    /\ outcome' = NoValue
    /\ idx' = idx + 1
    /\ pc' = "trials"
    /\ UNCHANGED <<a_block, trial_list, config, current_block, current_trial,
                   quit_now, datalist, block_rt, block_acc, header, blockLocals,
                   fileVars>>
    /\ UNCHANGED stimVars

\* run_block after the for loop: the block feedback, and the return
BlockEnd ==
    /\ pc = "trials"
    /\ idx > Len(trial_list) \/ BreaksLoop(quit_now)
    /\ IF BlockFeedback
       THEN /\ block_rt_avg' = MeanRT(block_rt)
            /\ block_acc_percent' = AccPercent(block_acc)
            /\ IF main_surface
               THEN /\ \E r \in UnitResults("Multiline", MessageParams, {" "}, NoLimit) :
                          UnitRan("blockfeedback", r)
                    /\ a_block' = a_block + 1
                    /\ pc' = "blocks"
               ELSE \* self.surface.get_width() raises AttributeError on None
                    /\ pc' = "raised"
                    /\ UNCHANGED <<a_block, unitVars>>
       ELSE /\ a_block' = a_block + 1
            /\ pc' = "blocks"
            /\ UNCHANGED <<blockLocals, unitVars>>
    /\ UNCHANGED <<idx, trial_list, config, current_block, current_trial,
                   quit_now, datalist, block_rt, block_acc, header, trialLocals,
                   fileVars>>
    /\ UNCHANGED stimVars

\* save_data
SaveData ==
    /\ pc = "blocks"
    /\ ~BlocksLeft(a_block)
    /\ \E old \in {NoFile, OldLines} :
          LET mode == SaveMode(old # NoFile, overwrite)
              lines == LinesToWrite(mode, header, datalist)
          IN  /\ found' = old
              /\ \/ /\ disk' = Opened(mode, old) \o lines
                    /\ warned' = FALSE
                 \/ \* IOError in open
                    /\ disk' = old
                    /\ warned' = DataLossNotice
                 \/ \* IOError in a write, after some of the lines
                    /\ \E k \in 1..MaxWritten :
                          /\ k < Len(lines)
                          /\ disk' = Opened(mode, old) \o SubSeq(lines, 1, k)
                    /\ warned' = DataLossNotice
    /\ saves' = saves + 1
    /\ pc' = IF quit_now THEN "done" ELSE "closing"
    /\ UNCHANGED <<a_block, idx, trial_list, config, current_block, current_trial,
                   quit_now, datalist, block_rt, block_acc, header, trialLocals,
                   blockLocals, unitVars>>
    /\ UNCHANGED stimVars

\* run_session: the closing screen
Closing ==
    /\ pc = "closing"
    /\ \E r \in UnitResults("Multiline", MessageParams, {"q"}, NoLimit) :
          UnitRan("closing", r)
    /\ pc' = "done"
    /\ UNCHANGED <<a_block, idx, trial_list, config, current_block, current_trial,
                   quit_now, datalist, block_rt, block_acc, header, trialLocals,
                   blockLocals, fileVars>>
    /\ UNCHANGED stimVars

Next ==
    \/ Instructions
    \/ RunBlockSkip
    \/ RunBlockStart
    \/ TrialRaise
    \/ TrialSkip
    \/ TrialFixation
    \/ TrialTarget
    \/ TrialFeedback
    \/ TrialRecord
    \/ TrialITI
    \/ BlockEnd
    \/ SaveData
    \/ Closing

Spec == Init /\ [][Next]_vars

\* ------------------------------------------- Stimulus Unit: the actions
\* the session of main()'s default configuration, left alone
DefaultConfig ==
    [condition |-> "Hard", blocks |-> 1, trial_feedback |-> TRUE,
     overwrite |-> FALSE, tag |-> <<"Default">>, surface |-> TRUE, list |-> "main"]

InitStandalone == InitSession(DefaultConfig) /\ InitUnit /\ InitLaunch /\ InitAux

\* The constructor's arguments: every kind with every surface and params
\* under the target's stopinfo shape, and a circle under every stopinfo.
UnitInputs ==
    {[kind |-> k, surface |-> sf, params |-> pr, stopinfo |-> TargetStop] :
        k \in Kinds, sf \in BOOLEAN, pr \in ParamInputs}
      \cup {[kind |-> "Circle", surface |-> TRUE, params |-> EmptyParams, stopinfo |-> si] :
              si \in StopInputs \cup {ChordStop}}

\* TrialEvent.__init__
Construct ==
    /\ phase \in {"idle", "returned", "raised"}
    /\ \E u \in UnitInputs :
          LET v == ValidateParams(u.kind, u.surface, u.params)
          IN  /\ kind' = u.kind
              /\ surface' = u.surface
              /\ params' = u.params
              /\ stopinfo' = u.stopinfo
              /\ paramsOK' = (v = "ok")
              /\ phase' = IF v = "raise" THEN "raised" ELSE "constructed"
    /\ queue' = [i \in 1..Len(queue) |-> [queue[i] EXCEPT !.at = Stale]]
    /\ elapsed' = 0
    /\ setup_done' = FALSE
    /\ drawn' = FALSE
    /\ flipped' = FALSE
    /\ resp' = NoneResp
    /\ run_rt' = NoTime
    /\ respAt' = NoTime
    /\ UNCHANGED shift
    /\ UNCHANGED sessionVars

\* run() up to the loop: setup and the start time, or the error log
RunStart ==
    /\ phase = "constructed"
    /\ IF paramsOK
       THEN /\ setup_done' = TRUE
            /\ elapsed' = 0
            /\ phase' = "poll"
       ELSE /\ phase' = "returned"
            /\ UNCHANGED <<setup_done, elapsed>>
    /\ UNCHANGED <<kind, surface, params, stopinfo, paramsOK, drawn, flipped,
                   resp, run_rt, respAt, queue, shift>>
    /\ UNCHANGED sessionVars

\* one ready_to_stop, and the end of the loop if it answers
Poll ==
    /\ phase = "poll"
    /\ LET ev == IF queue = <<>> THEN NoEvent ELSE Head(queue)
           r == ReadyToStop(ev, shift, stopinfo, elapsed)
       IN  /\ queue' = IF queue = <<>> THEN queue ELSE Tail(queue)
           /\ resp' = r
           /\ IF Truthy(r)
              THEN /\ run_rt' = elapsed
                   /\ respAt' = ev.at
                   /\ phase' = "returned"
              ELSE /\ phase' = "frame"
                   /\ UNCHANGED <<run_rt, respAt>>
    /\ UNCHANGED <<kind, surface, params, stopinfo, paramsOK, elapsed, setup_done,
                   drawn, flipped, shift>>
    /\ UNCHANGED sessionVars

\* draw_visual_objects and pygame.display.flip, which take some time
Frame ==
    /\ phase = "frame"
    /\ drawn' = TRUE
    /\ flipped' = TRUE
    /\ \E d \in 0..MaxFrame :
          /\ elapsed + d <= MaxElapsed
          /\ elapsed' = elapsed + d
    /\ phase' = "poll"
    /\ UNCHANGED <<kind, surface, params, stopinfo, paramsOK, setup_done, resp,
                   run_rt, respAt, queue, shift>>
    /\ UNCHANGED sessionVars

\* the participant or the window system posts an event
PostEvent ==
    /\ phase \in {"constructed", "poll", "frame"}
    /\ Len(queue) < MaxQueue
    /\ LET t == IF phase = "constructed" THEN Stale ELSE elapsed
       IN  \E e \in {QuitEvent(t)} \cup {KeyDown(k, shift, t) : k \in PressedKeys} :
              queue' = Append(queue, e)
    /\ UNCHANGED <<phase, kind, surface, params, stopinfo, paramsOK, elapsed,
                   setup_done, drawn, flipped, resp, run_rt, respAt, shift>>
    /\ UNCHANGED sessionVars

\* the participant presses or releases Shift
ShiftKey ==
    /\ phase \in {"constructed", "poll", "frame"}
    /\ shift' = ~shift
    /\ UNCHANGED <<phase, kind, surface, params, stopinfo, paramsOK, elapsed,
                   setup_done, drawn, flipped, resp, run_rt, respAt, queue>>
    /\ UNCHANGED sessionVars

NextUnit ==
    \/ Construct
    \/ RunStart
    \/ Poll
    \/ Frame
    \/ PostEvent
    \/ ShiftKey

SpecUnit == InitStandalone /\ [][NextUnit]_vars


\* ------------------------------------------------ main(): the settings
\* the dialog has been accepted with a condition and a number of trials
InitDialog ==
    /\ \E c \in Conditions : InitSession([DefaultConfig EXCEPT !.condition = c])
    /\ InitUnit
    /\ setup = "dialog"
    /\ v_entered \in TrialsMin..TrialsMax
    /\ v_trials = v_entered
    /\ my_stimuli = <<>>
    /\ InitAux

\* main(): correct for trials not div by 4
CorrectTrials ==
    /\ setup = "dialog"
    /\ v_trials' = CorrectedTrials(v_trials)
    /\ setup' = "corrected"
    /\ UNCHANGED <<v_entered, my_stimuli>>
    /\ UNCHANGED <<pc, a_block, idx, trial_list, condition, blocks, trial_feedback,
                   overwrite, tag, main_surface, current_block, current_trial,
                   quit_now, datalist, block_rt, block_acc, header, trialLocals,
                   blockLocals, unitVars, fileVars, auxVars>>
    /\ UNCHANGED stimVars

\* main(): iterations = v_trials // 4 and the list of stimuli
BuildTrialList ==
    /\ setup = "corrected"
    /\ my_stimuli' = BuildStimuli(condition, v_trials \div 4)
    /\ setup' = "built"
    /\ UNCHANGED <<v_entered, v_trials>>
    /\ UNCHANGED <<pc, a_block, idx, trial_list, condition, blocks, trial_feedback,
                   overwrite, tag, main_surface, current_block, current_trial,
                   quit_now, datalist, block_rt, block_acc, header, trialLocals,
                   blockLocals, unitVars, fileVars, auxVars>>
    /\ UNCHANGED stimVars

\* main(): ChoiceTask(..., trial_list=my_stimuli, ...)
ConstructTask ==
    /\ setup = "built"
    /\ trial_list' = my_stimuli
    /\ setup' = "running"
    /\ UNCHANGED <<v_entered, v_trials, my_stimuli>>
    /\ UNCHANGED <<pc, a_block, idx, condition, blocks, trial_feedback,
                   overwrite, tag, main_surface, current_block, current_trial,
                   quit_now, datalist, block_rt, block_acc, header, trialLocals,
                   blockLocals, unitVars, fileVars, auxVars>>
    /\ UNCHANGED stimVars

NextDialog ==
    \/ CorrectTrials
    \/ BuildTrialList
    \/ ConstructTask

SpecDialog == InitDialog /\ [][NextDialog]_vars

\* ------------------------------------------------- reading the record file
RECURSIVE Split(_)
\* the fields of a line, split at every comma
Split(text) ==
    IF text = <<>> THEN << <<>> >>
    ELSE IF Head(text) = Comma THEN << <<>> >> \o Split(Tail(text))
    ELSE LET rest == Split(Tail(text))
         IN  <<(<<Head(text)>> \o Head(rest))>> \o Tail(rest)

MaxNumber == 9
\* the integer a field spells, -1 if none
ParseInt(field) ==
    IF \E n \in 0..MaxNumber : field = Str(n)
    THEN CHOOSE n \in 0..MaxNumber : field = Str(n)
    ELSE -1

Columns == Len(HeaderColumns)
TrialColumn == 5
BlockColumn == 4
RTColumn == 11
AccColumn == 12

\* the data rows of the file save_data wrote
DataRows == SubSeq(disk, Len(disk) - Len(datalist) + 1, Len(disk))

Saved == saves = 1 /\ ~warned
Fresh == Saved /\ SaveMode(found # NoFile, overwrite) = "w"


\* =================================================================== claims

\* a Stimulus Unit has just returned the quit sentinel
QuitObserved == unitResp = QuitResp

\* C1: whenever a Stimulus Unit run during run_session has returned the quit
\* sentinel, the session is Aborted: the quit flag is set.
C1_QuitAbortsSession == QuitObserved => quit_now

\* the step in which the target stimulus returns the quit sentinel
TargetQuitStep == pc = "target" /\ nUnits' = nUnits + 1 /\ unitResp' = QuitResp

\* the trial numbers read back from the data rows of the record file
RowTrials == [i \in 1..Len(DataRows) |-> ParseInt(Split(DataRows[i])[TrialColumn])]

\* C2: when the target stimulus returns the quit sentinel, run_trial sets the
\* quit flag and appends no record; once the flag is set no trial is started
\* and no record appended; and the file save_data then writes holds one row
\* per trial completed before the quit, in order.
C2_QuitTrialNotRecorded ==
    /\ [][TargetQuitStep => (quit_now' /\ datalist' = datalist /\ pc' = "trials")]_vars
    /\ [][quit_now => (datalist' = datalist /\ current_trial' = current_trial
                       /\ current_block' = current_block
                       /\ pc' \notin {"target", "feedback", "record", "iti"})]_vars
    /\ []((Saved /\ quit_now) =>
            /\ Len(datalist) = current_trial - 1
            /\ RowTrials = [i \in 1..(current_trial - 1) |-> i])

C2_Witness ==
    /\ Saved /\ quit_now
    /\ unitName = "blockfeedback"
    /\ Len(datalist) >= 2
    /\ pc = "done"

\* C3: once the quit flag is set, no Stimulus Unit runs before save_data is
\* called.
C3_NoUnitAfterQuit == [][(quit_now /\ saves = 0) => nUnits' = nUnits]_vars

\* the trial numbers of the appended records, in append order
RecordTrials == [i \in 1..Len(datalist) |-> ParseInt(datalist[i][TrialColumn])]

\* C4: the trial numbers of the appended records are strictly increasing in
\* append order, and the trial counter never decreases.
C4_TrialNumbersIncrease ==
    /\ [](\A i \in 1..Len(datalist) : \A j \in 1..Len(datalist) :
             i < j => (0 < RecordTrials[i] /\ RecordTrials[i] < RecordTrials[j]))
    /\ [][current_trial' >= current_trial]_vars

C4_Witness ==
    /\ Len(datalist) >= 3
    /\ datalist[1][BlockColumn] = Str(1)
    /\ datalist[Len(datalist)][BlockColumn] = Str(2)

RECURSIVE SelectRT(_, _)
\* the RT fields of the Correct records of block b, in append order
SelectRT(rows, b) ==
    IF rows = <<>> THEN <<>>
    ELSE (IF Head(rows)[BlockColumn] = Str(b) /\ Head(rows)[AccColumn] = <<"Correct">>
          THEN <<Head(rows)[RTColumn]>> ELSE <<>>) \o SelectRT(Tail(rows), b)

\* the trial whose record is still to be appended
Scored == pc \in {"feedback", "record"}
InBlock == pc \in {"trials", "target", "feedback", "record", "iti"}

\* C5: within a block the reaction-time list holds exactly the reaction times
\* of the trials judged Correct in that block, and it is empty when a new
\* block starts.
C5_BlockRTOfThisBlock ==
    /\ [](InBlock =>
            [i \in 1..Len(block_rt) |-> Str(block_rt[i])]
              = SelectRT(datalist, current_block)
                  \o (IF Scored /\ outcome = "Correct" THEN <<Str(rt)>> ELSE <<>>))
    /\ [][current_block' # current_block => (block_rt' = <<>> /\ block_acc' = <<>>)]_vars

C5_Witness ==
    /\ current_block = 2
    /\ Len(block_rt) = 2
    /\ block_rt[1] # block_rt[2]
    /\ SelectRT(datalist, 1) # <<>>

\* C9: a record file created fresh from N records reads back as one header
\* line and N data rows of 21 fields each, with a contiguous increasing TRIAL
\* column.
C9_RoundTrip ==
    Fresh =>
      /\ Len(disk) = 1 + Len(datalist)
      /\ \A i \in 1..Len(DataRows) : Len(Split(DataRows[i])) = Columns
      /\ RowTrials = [i \in 1..Len(datalist) |-> i]

\* the step in which run_block computes the block statistics
StatsStep == pc = "trials" /\ pc' = "blocks"

\* C10: block statistics of a block with no scored trial give accuracy 0, and
\* of a block with no correct response give mean reaction time 0, with no
\* division by zero.
C10_EmptyBlockStats ==
    [][StatsStep =>
         /\ block_acc_percent' # ZeroDivisionError
         /\ block_rt_avg' # ZeroDivisionError
         /\ block_acc = <<>> => block_acc_percent' = 0
         /\ block_rt = <<>> => block_rt_avg' = 0]_vars

C10_Witness ==
    /\ pc = "blocks"
    /\ unitName = "blockfeedback"
    /\ quit_now
    /\ block_acc = <<>>
    /\ block_acc_percent = 0
    /\ block_rt_avg = 0
    /\ current_block = 2


\* ------------------------------------------------ claims on a Stimulus Unit
\* a run() that returned from its polling loop
Returned == phase = "returned" /\ paramsOK
TimedAndKeyed == stopinfo.given /\ stopinfo.haskeys /\ stopinfo.timelimit # NoLimit

\* an event that is a press of an accepted key
Matching(ev) == ev.type = "KEYDOWN" /\ ev.unicode \in stopinfo.keypress

\* a press of an accepted key that arrived before the time limit had elapsed
\* was polled as the response, or waits in the queue
ArrivedInTime ==
    IF resp.kind = "str"
    THEN respAt <= stopinfo.timelimit
    ELSE \E i \in 1..Len(queue) : Matching(queue[i]) /\ queue[i].at <= stopinfo.timelimit

\* C6: a unit with a time limit T and an accepted-key set, not stopped by a
\* quit signal, returns a key if and only if a matching key press arrived
\* before T had elapsed.
C6_KeyIffBeforeLimit ==
    (Returned /\ TimedAndKeyed /\ resp # QuitResp) =>
        (resp.kind = "str" <=> ArrivedInTime)

\* the poll that ends the loop on neither a quit signal nor an accepted key
TimeoutStep ==
    /\ phase = "poll"
    /\ phase' = "returned"
    /\ LET ev == IF queue = <<>> THEN NoEvent ELSE Head(queue)
       IN  /\ ev.type # "QUIT"
           /\ ~(ev.type = "KEYDOWN" /\ ev.key = "x" /\ shift)
           /\ ~(stopinfo.haskeys /\ Matching(ev))

\* C7 as claimed: a unit stopped by its time limit returns no response (None
\* or empty) and a reaction time of at least T.
C7_TimeoutNoResponse ==
    [][TimeoutStep =>
         /\ resp' \in {NoneResp, StrResp("")}
         /\ run_rt' >= stopinfo.timelimit]_vars

\* C7 as amended: a unit stopped by its time limit returns the elapsed
\* duration, a number greater than T and no string, as its first element, and
\* a reaction time of at least that duration as its second.
C7_TimeoutReturnsDuration ==
    [][TimeoutStep =>
         /\ stopinfo.timelimit # NoLimit
         /\ resp'.kind = "float"
         /\ resp'.d > stopinfo.timelimit
         /\ run_rt' >= resp'.d]_vars

C7_Witness ==
    /\ Returned
    /\ TimedAndKeyed
    /\ resp.kind = "float"
    /\ run_rt > stopinfo.timelimit
    /\ drawn

\* the parameter sets C8 lists as failing validation
InvalidCase ==
    \/ kind \in {"Text", "Multiline"}
         /\ (~surface \/ params.none \/ params.keys = {} \/ "message" \notin params.keys)
    \/ kind = "Picture"
         /\ (~surface \/ (~params.none /\ ("picfile" \notin params.keys \/ ~params.isfile)))
    \/ kind = "Circle" /\ ~surface

\* C8: a unit whose parameter validation failed does no setup, no draw and no
\* display flip, and its run() returns (None, None).
C8_InvalidReturnsNone ==
    /\ (phase \in {"constructed", "returned"} /\ InvalidCase) => ~paramsOK
    /\ (phase \in {"constructed", "returned"} /\ ~paramsOK) =>
           (~setup_done /\ ~drawn /\ ~flipped)
    /\ (phase = "returned" /\ ~paramsOK) => (resp = NoneResp /\ run_rt = NoTime)

C8_Witness ==
    /\ phase = "returned"
    /\ kind = "Picture"
    /\ surface
    /\ "picfile" \in params.keys
    /\ ~params.isfile
    /\ resp = NoneResp
    /\ queue # <<>>

\* ------------------------------------------------------------ block statistics
CRespColumn == 9
RespColumn == 10

\* the records of block b, in append order
BlockRows(b) == SelectSeq(datalist, LAMBDA row : row[BlockColumn] = Str(b))

\* the reaction time a record's RT field spells, in milliseconds
ParseRT(field) ==
    CHOOSE ms \in {RTms(t) : t \in 0..(TargetLimit + MaxLate + 1)} : field = Str(ms)

\* the reaction times of the records of the current block
RowRTs ==
    LET rows == BlockRows(current_block)
    IN  [i \in 1..Len(rows) |-> ParseRT(rows[i][RTColumn])]

\* every scored trial of the current block was answered with its correct key
AllKeyed ==
    LET rows == BlockRows(current_block)
    IN  /\ rows # <<>>
        /\ \A i \in 1..Len(rows) : rows[i][RespColumn] = rows[i][CRespColumn]

\* C11 as claimed: for a block whose every scored trial was answered with its
\* correct key, the block statistics are accuracy 100 and a mean reaction
\* time equal to the average of those trials' reaction times.
C11_MeanIsAverage ==
    [][(StatsStep /\ AllKeyed) =>
         /\ block_acc_percent' = 100
         /\ block_rt_avg' * Len(RowRTs) = Sum(RowRTs)]_vars

\* C11 as amended: for such a block the accuracy is 100 and the mean reaction
\* time is the average of the trials' reaction times in whole milliseconds
\* with its fraction dropped.
C11_MeanIsTruncatedAverage ==
    [][(StatsStep /\ AllKeyed) =>
         /\ block_acc_percent' = 100
         /\ block_rt_avg' * Len(RowRTs) <= Sum(RowRTs)
         /\ Sum(RowRTs) < (block_rt_avg' + 1) * Len(RowRTs)]_vars

C11_Witness ==
    /\ pc = "blocks"
    /\ unitName = "blockfeedback"
    /\ AllKeyed
    /\ Len(RowRTs) = LongBlockTrials
    /\ block_acc_percent = 100
    /\ block_rt_avg * Len(RowRTs) < Sum(RowRTs)

\* ----------------------------------------------------------- the quit signal
\* a press of X made while Shift was held: the character it typed is "X"
ShiftX(ev) == ev.type = "KEYDOWN" /\ ev.key = "x" /\ ev.unicode = "X"

\* a window-close event or a Shift+X key press
QuitSignal(ev) == ev.type = "QUIT" \/ ShiftX(ev)

\* C12: every poll that takes a window-close event or a Shift+X key press from
\* the queue yields the quit sentinel, whatever the stopinfo accepts and
\* whether or not the time limit has been exceeded.
C12_QuitTakesPrecedence ==
    [][(phase = "poll" /\ phase' # "poll" /\ queue # <<>> /\ QuitSignal(Head(queue)))
          => resp' = QuitResp]_vars

\* a unit whose stopinfo is absent or empty
Unstoppable ==
    ~stopinfo.given \/ (~stopinfo.haskeys /\ stopinfo.timelimit = NoLimit)

\* C19: run() of a unit with neither accepted keys nor a time limit returns
\* only with the quit sentinel, and run() of a unit without a time limit never
\* returns the elapsed duration of a timeout.
C19_NoStopBlocks ==
    /\ (Returned /\ Unstoppable) => resp = QuitResp
    /\ (Returned /\ stopinfo.timelimit = NoLimit) => resp.kind = "str"

C19_Witness ==
    /\ Returned
    /\ ~stopinfo.given
    /\ resp = QuitResp
    /\ run_rt = MaxElapsed
    /\ respAt = MaxElapsed
    /\ drawn

\* ------------------------------------------------------ the end of a session
\* C13: in every run_session that ends, normally or aborted by quit,
\* save_data has been called exactly once, after the last run_block returned
\* and before the closing screen.
C13_SaveExactlyOnce ==
    /\ [](saves <= 1)
    /\ [](pc = "done" => saves = 1)
    /\ [](unitName = "closing" => saves = 1)
    /\ [][saves' # saves =>
            (saves' = saves + 1 /\ a_block = blocks /\ pc = "blocks"
             /\ unitName # "closing")]_vars

C13_Witness ==
    /\ pc = "done"
    /\ saves = 1
    /\ quit_now
    /\ blocks = 2
    /\ current_block = 1
    /\ datalist # <<>>

\* C14: the closing screen is shown at the end of run_session if and only if
\* no Stimulus Unit of the session observed the quit signal: a session that
\* ends without the closing screen was aborted, and save_data is not followed
\* by the closing screen when the unit before it returned the quit sentinel.
C14_ClosingIffNoQuit ==
    /\ [](pc = "done" => (unitName = "closing" \/ quit_now))
    /\ [][(QuitObserved /\ saves' # saves) => pc' # "closing"]_vars

\* the lines a complete save_data leaves in the file
CompleteFile ==
    LET mode == SaveMode(found # NoFile, overwrite)
    IN  Opened(mode, found) \o LinesToWrite(mode, header, datalist)

\* the file existed and overwrite was not requested
Appending == found # NoFile /\ ~overwrite

\* C15: after save_data, if the file existed and overwrite was not requested
\* the old content is an unchanged prefix of the file and a complete save
\* added the data rows only; otherwise a complete save left the header row
\* followed by the data rows.
C15_HeaderIffFresh ==
    saves = 1 =>
      IF Appending
      THEN /\ Len(disk) >= Len(found)
           /\ SubSeq(disk, 1, Len(found)) = found
           /\ ~warned => disk = found \o [i \in 1..Len(datalist) |-> Join(datalist[i])]
      ELSE ~warned => disk = <<header>> \o [i \in 1..Len(datalist) |-> Join(datalist[i])]

C15_Witness ==
    /\ saves = 1
    /\ ~warned
    /\ Appending
    /\ Len(datalist) >= 2
    /\ Len(disk) = Len(OldLines) + Len(datalist)

\* C16: a save_data that does not write every line raises the data-loss
\* warning and returns; run_session goes on to the closing screen unless the
\* session was aborted; and after the warning save_data is not called again,
\* the file is not written again and the records stay as they are.
C16_SaveFailureNotFatal ==
    /\ [][saves' # saves =>
            /\ pc' = IF quit_now THEN "done" ELSE "closing"
            /\ warned' \/ disk' = CompleteFile']_vars
    /\ [][warned => (saves' = saves /\ disk' = disk /\ datalist' = datalist)]_vars
    /\ []((warned /\ pc = "done" /\ ~quit_now) => unitName = "closing")

C16_Witness ==
    /\ warned
    /\ pc = "done"
    /\ unitName = "closing"
    /\ Appending
    /\ Len(datalist) >= 2
    /\ Len(disk) = Len(found) + 1

\* C17: when an error has ended run_session after records were accumulated,
\* save_data has been called.
C17_FlushOnError == (pc = "raised" /\ datalist # <<>>) => saves >= 1

\* the step in which the target's run() returns (None, None)
InvalidTargetStep == pc = "target" /\ nUnits' = nUnits + 1 /\ unitResp' = NoneResp

\* C20: when the target of a trial failed validation and returned (None, None),
\* run_trial raises no error, scores the trial Incorrect and goes on to record
\* it.
C20_InvalidTargetUnanswered ==
    [][InvalidTargetStep =>
         (outcome' = "Incorrect" /\ pc' \in {"feedback", "record"})]_vars

\* ------------------------------------------------------- trials per block
\* the smallest multiple of four that is at least v
RoundUp4(v) == CHOOSE m \in v..(v + 3) : m % 4 = 0

\* C18: for every trials-per-block value entered in the dialog, the value
\* used for the session is the smallest multiple of four that is at least the
\* entered value, and the trial list handed to the task holds exactly that
\* many specifications, all of the session's condition.
C18_RoundedUpToFour ==
    setup = "running" =>
      /\ v_trials = RoundUp4(v_entered)
      /\ Len(trial_list) = RoundUp4(v_entered)
      /\ \A i \in 1..Len(trial_list) : Accepted(trial_list[i])

\* --------------------------------------------- exceptions out of a unit
\* C21: a Stimulus Unit of any kind built without a surface or with a params
\* of None never raises: its validation fails and no exception leaves the
\* constructor or run().
C21_InvalidNeverRaises ==
    (kind # NoValue /\ (~surface \/ params.none)) =>
        (phase # "raised" /\ ~paramsOK)

\* C30: run() stamps a reaction time, and so accepts a response, only after
\* the unit has drawn and flipped at least one frame of its stimulus.
C30_ClockStartsAtFirstFrame ==
    (Returned /\ run_rt # NoTime) => (drawn /\ flipped)

\* ------------------------------------------------- a block after the quit
\* a run_block called while the quit flag is set
QuitBlockCall == pc = "blocks" /\ quit_now /\ a_block < blocks

\* what such a call leaves alone: no unit runs and the counters, the order of
\* the trial list, the records and the flag stay as they are
QuitBlockKeeps ==
    /\ nUnits' = nUnits
    /\ current_block' = current_block
    /\ current_trial' = current_trial
    /\ trial_list' = trial_list
    /\ datalist' = datalist
    /\ quit_now' = quit_now
    /\ pc' = "blocks"

\* C22 as claimed: a run_block called while the quit flag is set runs no unit
\* and leaves the block counter, the trial counter, the order of the trial
\* list, the record list and the per-block reaction-time and accuracy lists
\* unchanged.
C22_QuitBlockNoOp ==
    [][QuitBlockCall =>
         (QuitBlockKeeps /\ block_rt' = block_rt /\ block_acc' = block_acc)]_vars

\* C22 as amended: such a call runs no unit and leaves the block counter, the
\* trial counter, the order of the trial list, the record list and the quit
\* flag unchanged, and it empties the per-block reaction-time and accuracy
\* lists.
C22_QuitBlockResetsLists ==
    [][QuitBlockCall =>
         (QuitBlockKeeps /\ block_rt' = <<>> /\ block_acc' = <<>>)]_vars

C22_Witness ==
    /\ pc = "blocks"
    /\ quit_now
    /\ a_block = blocks
    /\ blocks = 2
    /\ current_block = 1
    /\ block_acc = <<>>
    /\ datalist # <<>>
    /\ saves = 0

\* ------------------------------------------------ rejected specifications
\* a specification that is empty, not of four fields or of another condition
Foreign(info) == info = <<>> \/ Len(info) # 4 \/ info[2] # condition

\* run_trial is called with a rejected specification
ForeignCall ==
    /\ pc = "trials"
    /\ idx <= Len(trial_list)
    /\ ~quit_now
    /\ Foreign(trial_list[idx])

\* C23: run_trial called with a specification that is empty, not of four
\* fields or of another condition changes nothing: no unit runs and the trial
\* counter, the per-block lists, the record list and the quit flag stay as
\* they are.
C23_ForeignSpecIgnored ==
    [][ForeignCall =>
         /\ nUnits' = nUnits
         /\ current_trial' = current_trial
         /\ current_block' = current_block
         /\ block_rt' = block_rt
         /\ block_acc' = block_acc
         /\ datalist' = datalist
         /\ quit_now' = quit_now
         /\ pc' \notin {"target", "feedback", "record", "iti"}]_vars

C23_Witness ==
    /\ pc = "trials"
    /\ idx = 3
    /\ Len(trial_list) = 3
    /\ \A i \in 1..2 : Foreign(trial_list[i])
    /\ \E i \in 1..2 : trial_list[i] = <<>>
    /\ current_trial = 0
    /\ datalist = <<>>
    /\ unitName = "preblock"

\* ------------------------------------------------------------ scoring
\* the step in which run_trial scores the target's response
ScoringStep == pc = "target" /\ pc' \in {"feedback", "record"}

\* C24: a trial is scored Correct exactly when the target unit's response is
\* the specification's correct key, a target that returned no string is scored
\* Incorrect, and every record carries Correct exactly when its response
\* field equals its correct-response field.
C24_CorrectIffKeyMatches ==
    /\ [][ScoringStep =>
            /\ outcome' = "Correct" <=> unitResp' = StrResp(trial_list[idx][3])
            /\ unitResp'.kind # "str" => outcome' = "Incorrect"]_vars
    /\ [][pc = "record" =>
            datalist'[Len(datalist')][AccColumn] = <<outcome>>]_vars
    /\ [](\A i \in 1..Len(datalist) :
            /\ datalist[i][AccColumn] \in {<<"Correct">>, <<"Incorrect">>}
            /\ datalist[i][AccColumn] = <<"Correct">>
                 <=> datalist[i][RespColumn] = datalist[i][CRespColumn]
            /\ datalist[i][RespColumn] = <<>> => datalist[i][AccColumn] = <<"Incorrect">>)

C24_Witness ==
    /\ Len(datalist) >= 3
    /\ \E i \in 1..Len(datalist) : datalist[i][AccColumn] = <<"Correct">>
    /\ \E i \in 1..Len(datalist) :
          datalist[i][AccColumn] = <<"Incorrect">> /\ datalist[i][RespColumn] = <<>>
    /\ \E i \in 1..Len(datalist) :
          datalist[i][AccColumn] = <<"Incorrect">> /\ datalist[i][RespColumn] # <<>>

\* ------------------------------------------------ the per-block lists
\* the records appended so far in the current block
BlockRecords == Len(BlockRows(current_block))

\* C25 as claimed: at every point within a block len(block_rt) =
\* sum(block_acc) <= len(block_acc) = the number of records appended so far in
\* the current block.
C25_ListsMatchRecords ==
    InBlock =>
      /\ Len(block_rt) = Sum(block_acc)
      /\ Sum(block_acc) <= Len(block_acc)
      /\ Len(block_acc) = BlockRecords

\* the trial scored whose record is not appended yet
Pending == IF Scored THEN 1 ELSE 0

\* C25 as amended: each scored trial appends one entry, 1 or 0, to block_acc
\* and its reaction time to block_rt only when Correct; at every point within
\* a block len(block_rt) = sum(block_acc) <= len(block_acc), and
\* len(block_acc) is the number of records appended so far in the block, plus
\* one between the scoring of a trial and the appending of its record.
C25_ListsMatchScoredTrials ==
    /\ [][ScoringStep =>
            /\ Len(block_acc') = Len(block_acc) + 1
            /\ block_acc'[Len(block_acc')] = (IF outcome' = "Correct" THEN 1 ELSE 0)
            /\ block_rt' = IF outcome' = "Correct" THEN Append(block_rt, rt') ELSE block_rt]_vars
    /\ [](InBlock =>
            /\ Len(block_rt) = Sum(block_acc)
            /\ Sum(block_acc) <= Len(block_acc)
            /\ Len(block_acc) = BlockRecords + Pending)

C25_Witness ==
    /\ InBlock
    /\ Scored
    /\ Len(block_acc) = 2
    /\ Sum(block_acc) = 1
    /\ BlockRecords = 1
    /\ current_block = 2

\* ------------------------------------------------ the response field
\* the response fields a record may carry
ResponseFields == {<<k>> : k \in Allowed} \cup {<<>>}

\* C26: the response field of every record is an accepted key or the empty
\* string, never the quit sentinel; a trial whose target returned no string
\* is recorded with an empty response field, and a target that returned the
\* quit sentinel adds no record.
C26_ResponseKeyOrEmpty ==
    /\ [](\A i \in 1..Len(datalist) :
            /\ datalist[i][RespColumn] \in ResponseFields
            /\ datalist[i][RespColumn] # <<"quit">>)
    /\ [][(pc = "record" /\ response.kind # "str") =>
            datalist'[Len(datalist')][RespColumn] = <<>>]_vars
    /\ [][TargetQuitStep => datalist' = datalist]_vars

C26_Witness ==
    /\ pc = "iti"
    /\ response.kind = "float"
    /\ datalist[Len(datalist)][RespColumn] = <<>>
    /\ Len(datalist) = 2
    /\ datalist[1][RespColumn] \in {<<k>> : k \in Allowed}

\* ------------------------------------------------ the units of a trial
\* a Stimulus Unit runs in this step
UnitStep == nUnits' = nUnits + 1

\* the unit that follows a scored target within the trial
AfterTarget == IF trial_feedback THEN "feedback" ELSE "iti"

\* the record of the current trial is the last one appended
CurrentRecorded ==
    /\ datalist # <<>>
    /\ datalist[Len(datalist)][TrialColumn] = Str(current_trial)
    /\ datalist[Len(datalist)][BlockColumn] = Str(current_block)

\* C27: within a trial the units run in the order fixation, target, trial
\* feedback, inter-trial interval; the feedback unit runs exactly when trial
\* feedback is enabled; and the record of the trial is appended after the
\* scoring and the feedback, without a unit in between, before the
\* inter-trial interval starts.
C27_UnitOrder ==
    /\ [][(UnitStep /\ unitName = "fixation") => unitName' = "target"]_vars
    /\ [][(UnitStep /\ unitName' = "target") => unitName = "fixation"]_vars
    /\ [][(UnitStep /\ unitName = "target" /\ unitResp # QuitResp)
             => unitName' = AfterTarget]_vars
    /\ [][(UnitStep /\ unitName' = "feedback")
             => (trial_feedback /\ unitName = "target" /\ ~CurrentRecorded)]_vars
    /\ [][(UnitStep /\ unitName = "feedback") => unitName' = "iti"]_vars
    /\ [][(UnitStep /\ unitName' = "iti")
             => (unitName = (IF trial_feedback THEN "feedback" ELSE "target")
                 /\ CurrentRecorded)]_vars
    /\ [][datalist' # datalist
             => (~UnitStep /\ Scored /\ ~CurrentRecorded /\ CurrentRecorded'
                 /\ unitName = (IF trial_feedback THEN "feedback" ELSE "target"))]_vars

C27_Witness ==
    /\ pc = "trials"
    /\ unitName = "iti"
    /\ trial_feedback
    /\ CurrentRecorded
    /\ current_trial = 2
    /\ Len(datalist) = 2

\* ------------------------------------------------ the trials of a block
StimColumn == 6
XLocColumn == 7
CondColumn == 8

\* how often a specification occurs in a list
Occurrences(list, info) == Cardinality({i \in 1..Len(list) : list[i] = info})

\* two lists hold the same specifications, each as often
SameMultiset(l1, l2) ==
    /\ Len(l1) = Len(l2)
    /\ \A i \in 1..Len(l1) : Occurrences(l1, l1[i]) = Occurrences(l2, l1[i])

\* the specifications of the session's condition, in the order of the list
OfCondition(list) ==
    SelectSeq(list, LAMBDA info : Len(info) = 4 /\ info[2] = condition)

\* the specification a record was made from
RowSpec(row) == <<row[StimColumn], row[CondColumn], row[CRespColumn], row[XLocColumn]>>
SpecFields(info) == << <<info[1]>>, <<info[2]>>, <<info[3]>>, Str(info[4]) >>

\* block b ran every specification of the condition once
RanAll(b) ==
    LET rows == BlockRows(b)
        ran == [i \in 1..Len(rows) |-> RowSpec(rows[i])]
        had == OfCondition(trial_list)
    IN  SameMultiset(ran, [i \in 1..Len(had) |-> SpecFields(had[i])])

\* C28: the shuffle of a block leaves the trial list a permutation of itself;
\* the trials recorded in a block that ended without the quit flag set are
\* the specifications of the active condition, each once; and a session that
\* ends without the quit flag set has appended blocks times the number of
\* those specifications records.
C28_BlockIsPermutation ==
    /\ [][SameMultiset(trial_list', trial_list)]_vars
    /\ []((pc \in {"blocks", "closing", "done"} /\ ~quit_now) =>
            \A b \in 1..current_block : RanAll(b))
    /\ []((pc = "done" /\ ~quit_now) =>
            Len(datalist) = blocks * Len(OfCondition(trial_list)))

C28_Witness ==
    /\ pc = "done"
    /\ ~quit_now
    /\ blocks = 2
    /\ Len(datalist) = 4
    /\ RowSpec(datalist[1]) # RowSpec(datalist[3])
    /\ Len(trial_list) = 3

\* ------------------------------------------------ the block counter
\* the block numbers of the appended records, in append order
RecordBlocks == [i \in 1..Len(datalist) |-> ParseInt(datalist[i][BlockColumn])]

\* a block starts: run_block goes on past the quit check
BlockStarts == pc = "blocks" /\ pc' = "trials"

\* C29: the block counter goes up by one in the step that starts a block and
\* in no other step, and never exceeds the configured number of blocks; the
\* block number of every record lies in 1..blocks, and the block numbers do
\* not decrease along the record list.
C29_BlockCounter ==
    /\ [][BlockStarts => current_block' = current_block + 1]_vars
    /\ [][~BlockStarts => current_block' = current_block]_vars
    /\ [](current_block <= blocks)
    /\ [](\A i \in 1..Len(datalist) :
            /\ RecordBlocks[i] \in 1..blocks
            /\ RecordBlocks[i] <= current_block
            /\ \A j \in i..Len(datalist) : RecordBlocks[i] <= RecordBlocks[j])

C29_Witness ==
    /\ pc = "done"
    /\ current_block = 2
    /\ blocks = 2
    /\ quit_now
    /\ RecordBlocks = <<1, 1, 2>>

\* ------------------------------------- run_trial: rt = int(rt * 1000.0)
\* A natural number is a sequence of bits, lowest first, and a float a
\* mantissa m of at most MantissaBits bits with an exponent x: the value
\* m * 2^x of an IEEE 754 double that is not negative.
MantissaBits == 53

RECURSIVE Trim(_)
\* a number without the zeros above its highest bit
Trim(a) ==
    IF a # <<>> /\ a[Len(a)] = 0 THEN Trim(SubSeq(a, 1, Len(a) - 1)) ELSE a

RECURSIVE BitsValue(_)
\* the number a sequence of bits spells
BitsValue(a) == IF a = <<>> THEN 0 ELSE Head(a) + 2 * BitsValue(Tail(a))

\* sums and products are worked out in limbs of 15 bits, lowest first, so
\* that no intermediate value leaves the range of an integer
ToLimbs(a) ==
    [j \in 1..((Len(a) + 14) \div 15) |->
        BitsValue(SubSeq(a, 15 * (j - 1) + 1,
                         IF 15 * j < Len(a) THEN 15 * j ELSE Len(a)))]

FromLimbs(l) ==
    Trim([i \in 1..(15 * Len(l)) |-> (l[(i - 1) \div 15 + 1] \div 2^((i - 1) % 15)) % 2])

RECURSIVE Carry(_, _)
\* limbs brought back below 2^15, the overflow carried upwards
Carry(l, c) ==
    IF l = <<>>
    THEN IF c = 0 THEN <<>> ELSE <<c>>
    ELSE <<(Head(l) + c) % 32768>> \o Carry(Tail(l), (Head(l) + c) \div 32768)

\* a + b + carry
AddBits(a, b, carry) ==
    LET la == ToLimbs(a)
        lb == ToLimbs(b)
        n == IF Len(la) > Len(lb) THEN Len(la) ELSE Len(lb)
    IN  FromLimbs(Carry([j \in 1..n |-> (IF j <= Len(la) THEN la[j] ELSE 0)
                                       + (IF j <= Len(lb) THEN lb[j] ELSE 0)], carry))

\* a * 2^n
ShiftLeft(a, n) == [i \in 1..n |-> 0] \o a

\* a with its n lowest bits dropped
DropLow(a, n) == IF n >= Len(a) THEN <<>> ELSE SubSeq(a, n + 1, Len(a))

\* a * n for a natural number n below 2^16
MulBits(a, n) ==
    LET la == ToLimbs(a)
    IN  FromLimbs(Carry([j \in 1..Len(la) |-> la[j] * n], 0))

RECURSIVE NatBits(_)
\* the bits of a natural number
NatBits(n) == IF n = 0 THEN <<>> ELSE <<n % 2>> \o NatBits(n \div 2)

RECURSIVE FromHex(_)
\* the bits of a number written in hexadecimal digits, highest first
FromHex(h) ==
    IF h = <<>> THEN <<>>
    ELSE LET d == h[Len(h)]
         IN  <<d % 2, (d \div 2) % 2, (d \div 4) % 2, d \div 8>>
               \o FromHex(SubSeq(h, 1, Len(h) - 1))

\* the double nearest to bits * 2^x, ties to the even mantissa
RoundNearestEven(bits, x) ==
    LET a == Trim(bits)
        drop == Len(a) - MantissaBits
    IN  IF drop <= 0 THEN [m |-> a, x |-> x]
        ELSE LET kept == DropLow(a, drop)
                 up == /\ a[drop] = 1
                       /\ ((\E i \in 1..(drop - 1) : a[i] = 1) \/ kept[1] = 1)
                 r == IF up THEN AddBits(kept, <<1>>, 0) ELSE kept
             IN  IF Len(r) > MantissaBits
                 THEN [m |-> DropLow(r, 1), x |-> x + drop + 1]
                 ELSE [m |-> r, x |-> x + drop]

\* the float product f * n of a float and a whole number a float holds exactly
FloatTimes(f, n) == RoundNearestEven(MulBits(f.m, n), f.x)

\* int(f): the whole part of a float that is not negative
IntOf(f) ==
    IF f.x >= 0 THEN BitsValue(ShiftLeft(f.m, f.x))
    ELSE BitsValue(DropLow(f.m, -f.x))

\* rt = int(rt * 1000.0)
IntMs(f) == IntOf(FloatTimes(f, 1000))

\* floor(e * 1000) of the real number a float stands for
FloorMs(f) ==
    IF f.x >= 0 THEN BitsValue(ShiftLeft(MulBits(f.m, 1000), f.x))
    ELSE BitsValue(DropLow(MulBits(f.m, 1000), -f.x))

\* the doubles nearest to 0.009 s, 0.25 s, 1.001 s and 2.049 s
NearMs ==
    { [m |-> FromHex(<<1, 2, 6, 14, 9, 7, 8, 13, 4, 15, 13, 15, 3, 11>>), x |-> -59],
      [m |-> FromHex(<<1, 0, 0, 0, 0, 0, 0, 0, 0, 0, 0, 0, 0, 0>>), x |-> -54],
      [m |-> FromHex(<<1, 0, 0, 4, 1, 8, 9, 3, 7, 4, 11, 12, 6, 10>>), x |-> -52],
      [m |-> FromHex(<<1, 0, 6, 4, 5, 10, 1, 12, 10, 12, 0, 8, 3, 1>>), x |-> -51] }

MaxUlps == 15
\* the elapsed times run() may return: each of those doubles and the MaxUlps
\* doubles that follow it
ElapsedTimes ==
    {[m |-> AddBits(f.m, NatBits(j), 0), x |-> f.x] : f \in NearMs, j \in 0..MaxUlps}

\* the target's run() has returned a reaction time
InitConversion ==
    /\ InitSession(DefaultConfig) /\ InitUnit /\ InitLaunch
    /\ rt_float \in ElapsedTimes
    /\ rt_ms = NoTime
    /\ FormIdle
    /\ ConfigIdle
    /\ OffsetIdle

\* rt = int(rt * 1000.0)
ConvertRT ==
    /\ rt_ms = NoTime
    /\ rt_ms' = IntMs(rt_float)
    /\ UNCHANGED <<rt_float, formVars, iniVars, normVars>>
    /\ UNCHANGED <<pc, a_block, idx, trial_list, condition, blocks, trial_feedback,
                   overwrite, tag, main_surface, dialogVars, current_block,
                   current_trial, quit_now, datalist, block_rt, block_acc, header,
                   trialLocals, blockLocals, unitVars, fileVars>>
    /\ UNCHANGED stimVars

NextConversion == ConvertRT

SpecConversion == InitConversion /\ [][NextConversion]_vars

\* C31: the reaction time stored for a trial is floor(e * 1000) of the elapsed
\* time e that run() returned, for every elapsed time.
C31_TruncatedMs == rt_ms # NoTime => rt_ms = FloorMs(rt_float)

\* --------------------------------------------- events left in the queue
\* run() returned a key as the unit's response
KeyResponse == Returned /\ resp.kind = "str" /\ resp # QuitResp

\* C32: a key response a unit returns comes from a key event generated after
\* the unit started, never from an event that was in the queue when the
\* unit was constructed or that arrived before its run() began.
C32_ResponseFromOwnEvent == KeyResponse => respAt # Stale

\* ------------------------------------------------ after the quit
\* C33: the quit flag, once set, is never cleared; in the step that sets it
\* and in every later step of run_session the record list, the trial counter
\* and the block counter stay as they are.
C33_QuitMonotone ==
    /\ [][quit_now => quit_now']_vars
    /\ [][quit_now' =>
            /\ datalist' = datalist
            /\ current_trial' = current_trial
            /\ current_block' = current_block]_vars

C33_Witness ==
    /\ pc = "done"
    /\ quit_now
    /\ blocks = 2
    /\ current_block = 1
    /\ current_trial = 2
    /\ Len(datalist) = 1
    /\ saves = 1

\* ------------------------------------------- the trial counter and the records
\* run_session is between two trials, before the first or after the last
BetweenTrials == pc \in {"instructions", "blocks", "trials", "iti", "closing", "done"}

\* C34: the trial counter is the number of records appended or one more; it
\* is that number between the trials of a session that was not aborted, and
\* it is one more only while a trial is in progress or after a trial was
\* aborted by quit.
C34_CounterTracksRecords ==
    /\ Len(datalist) <= current_trial
    /\ current_trial <= Len(datalist) + 1
    /\ (BetweenTrials /\ ~quit_now) => current_trial = Len(datalist)
    /\ current_trial = Len(datalist) + 1 =>
          (pc \in {"target", "feedback", "record", "raised"} \/ quit_now)

C34_Witness ==
    /\ pc = "feedback"
    /\ current_block = 2
    /\ current_trial = 3
    /\ Len(datalist) = 2
    /\ outcome = "Correct"

\* ------------------------------------------------ the header line
\* C35: whenever save_data has created or overwritten the record file, the
\* first line of the file is the fixed header of 21 columns, in every
\* session, one without a recorded trial included.
C35_HeaderFirst ==
    (saves = 1 /\ ~Appending /\ ~warned) =>
        /\ disk # <<>>
        /\ disk[1] = Join(HeaderColumns)
        /\ Len(Split(disk[1])) = Columns

\* ------------------------------------------------------------ termination
\* The session of the default configuration, run with every unit taken to
\* its end, or one Stimulus Unit run through its polling loop.
InitLive == InitStandalone

\* a step of run_session
SessionStep ==
    /\ phase = "idle"
    /\ \/ Instructions
       \/ RunBlockStart
       \/ TrialSkip
       \/ TrialFixation
       \/ TrialTarget
       \/ TrialFeedback
       \/ TrialRecord
       \/ TrialITI
       \/ BlockEnd
       \/ SaveData
       \/ Closing

\* a step of the one unit constructed, or of its environment
LoopStep ==
    /\ pc = "instructions"
    /\ nUnits = 0
    /\ \/ phase = "idle" /\ Construct
       \/ RunStart
       \/ Poll
       \/ Frame
       \/ PostEvent
       \/ ShiftKey

\* a frame in which the clock advances
Tick == Frame /\ elapsed' > elapsed

\* run_session goes on, and so does run() up to its return
Progress == SessionStep \/ (LoopStep /\ (RunStart \/ Poll \/ Frame))

NextLive == SessionStep \/ LoopStep

\* run_session and the loop of run() go on as long as they can, and the clock
\* advances
SpecLive ==
    /\ InitLive
    /\ [][NextLive]_vars
    /\ WF_vars(Progress)
    /\ SF_vars(LoopStep /\ Tick)

\* run_session has been entered
SessionRunning == phase = "idle" /\ nUnits > 0

\* the unit has a time limit
Limited == stopinfo.given /\ stopinfo.timelimit # NoLimit

\* a quit signal or an accepted key waits in the queue of the unit
StopQueued ==
    \E i \in 1..Len(queue) :
        \/ queue[i].type = "QUIT"
        \/ stopinfo.given /\ stopinfo.haskeys /\ Matching(queue[i])

\* C36: run_session, once entered, reaches save_data and returns, given that
\* each of its units returns; a unit with a time limit returns whatever the
\* input, and a unit that has received a quit signal or one of its accepted
\* keys returns.
C36_Terminates ==
    /\ SessionRunning ~> (pc = "done" /\ saves = 1)
    /\ (phase \in {"constructed", "poll", "frame"} /\ (Limited \/ StopQueued))
          ~> phase = "returned"

C36_Witness ==
    /\ phase = "returned"
    /\ paramsOK
    /\ ~stopinfo.haskeys
    /\ stopinfo.timelimit = MaxLimit
    /\ resp.kind = "float"
    /\ queue # <<>>
    /\ pc = "instructions"

\* ------------------------------------------ main(): the parameter dialog
\* texts the Participant ID field can hold
PidTexts == {<<>>, <<" ">>, <<"P1">>}

\* StringItem.validate_line_edit: not_empty and entry.strip() == ""
Blank(text) == \A i \in 1..Len(text) : text[i] = " "

\* ParamForm.__init__ and run_app: the dialog is shown, ok starts True
InitForm ==
    /\ InitSession(DefaultConfig)
    /\ InitUnit
    /\ ConversionIdle
    /\ ConfigIdle
    /\ OffsetIdle
    /\ setup = "form"
    /\ v_entered = TrialsMin
    /\ v_trials = TrialsMin
    /\ my_stimuli = <<>>
    /\ form_ok = TRUE
    /\ flagged = Blank(<<"P1">>)
    /\ dismissed = NoValue
    /\ go_flight = FALSE

formRest == <<pc, a_block, idx, trial_list, condition, blocks, trial_feedback,
              overwrite, tag, main_surface, current_block, current_trial,
              quit_now, datalist, block_rt, block_acc, header, trialLocals,
              blockLocals, unitVars, fileVars, stimVars, rt_float, rt_ms,
              my_stimuli, iniVars, normVars>>

\* the user types into the Participant ID field: validate_line_edit
EditPid ==
    /\ setup = "form"
    /\ \E text \in PidTexts : flagged' = Blank(text)
    /\ UNCHANGED <<setup, v_entered, v_trials, form_ok, dismissed, go_flight>>
    /\ UNCHANGED formRest

\* the user changes the Trials per Block field
EditTrials ==
    /\ setup = "form"
    /\ v_entered' \in TrialsMin..TrialsMax
    /\ UNCHANGED <<setup, v_trials, form_ok, flagged, dismissed, go_flight>>
    /\ UNCHANGED formRest

\* ParamForm.click_ok: a warning while a field is flagged, else ok and close
ClickOk ==
    /\ setup = "form"
    /\ IF flagged
       THEN UNCHANGED <<setup, form_ok, dismissed>>
       ELSE /\ form_ok' = TRUE
            /\ dismissed' = "ok"
            /\ setup' = "closed"
    /\ UNCHANGED <<v_entered, v_trials, flagged, go_flight>>
    /\ UNCHANGED formRest

\* ParamForm.click_cancel
ClickCancel ==
    /\ setup = "form"
    /\ form_ok' = FALSE
    /\ dismissed' = "cancel"
    /\ setup' = "closed"
    /\ UNCHANGED <<v_entered, v_trials, flagged, go_flight>>
    /\ UNCHANGED formRest

\* the window is closed by its close button or the Escape key: QDialog
\* closes, no handler of ParamForm runs
CloseWindow ==
    /\ setup = "form"
    /\ dismissed' = "window"
    /\ setup' = "closed"
    /\ UNCHANGED <<v_entered, v_trials, form_ok, flagged, go_flight>>
    /\ UNCHANGED formRest

\* main(): if param.ok: new_vals = param.get_values()
ReadForm ==
    /\ setup = "closed"
    /\ IF form_ok
       THEN /\ v_trials' = v_entered
            /\ setup' = "dialog"
       ELSE /\ setup' = "declined"
            /\ UNCHANGED v_trials
    /\ UNCHANGED <<v_entered, formVars>>
    /\ UNCHANGED formRest

\* main(): if param.verify(): go_flight = True
Verify ==
    /\ setup = "corrected"
    /\ \E yes \in BOOLEAN :
          /\ go_flight' = yes
          /\ setup' = IF yes THEN "flight" ELSE "declined"
    /\ UNCHANGED <<v_entered, v_trials, form_ok, flagged, dismissed>>
    /\ UNCHANGED formRest

NextForm ==
    \/ EditPid
    \/ EditTrials
    \/ ClickOk
    \/ ClickCancel
    \/ CloseWindow
    \/ ReadForm
    \/ CorrectTrials
    \/ Verify

SpecForm == InitForm /\ [][NextForm]_vars

\* C37: a session is started (go_flight) only if the dialog was closed by
\* its OK button while no field was flagged; closing it any other way never
\* leads to a session
C37_StartedOnlyAfterOk ==
    go_flight => (dismissed = "ok" /\ ~flagged)

\* ----------------------------------------- main(): the configuration file
\* the options main() reads from the USER section, in the order it reads them
ReadOrder == <<"pid", "blocks", "blocktrials", "condition", "type", "diameter",
               "width", "height", "fullscreen", "overwrite", "tag">>

Options == {ReadOrder[i] : i \in 1..Len(ReadOrder)}

\* main(): the expected list handed to load_config_file
Expected == {"pid", "blocks", "blocktrials", "condition", "type", "diameter",
             "width", "fullscreen", "overwrite"}

\* ConfigParser.has_option / get: an option of the section or of DEFAULT
Available(file) == file.options \cup file.defaults

\* load_config_file: the file's configuration if the file is there, has the
\* section and every expected option; else default_config()
UsesDefault(file, expected) ==
    ~(file.exists /\ file.user /\ expected \subseteq Available(file))

LoadedConfig(file, expected) ==
    IF UsesDefault(file, expected)
    THEN [loaded |-> TRUE, from_file |-> FALSE, options |-> Options]
    ELSE [loaded |-> TRUE, from_file |-> TRUE, options |-> Available(file)]

\* the files main() can find: none, one without a USER section, one with a
\* USER section holding some options, each with or without the DEFAULT
\* entries default_config() writes
ConfigFiles ==
    {AbsentFile}
    \cup {[exists |-> TRUE, user |-> FALSE, options |-> {}, defaults |-> d] :
             d \in {{}, Options}}
    \cup {[exists |-> TRUE, user |-> TRUE, options |-> o, defaults |-> d] :
             o \in SUBSET Options, d \in {{}, Options}}

InitConfig ==
    /\ InitSession(DefaultConfig)
    /\ InitUnit
    /\ InitLaunch
    /\ ConversionIdle
    /\ FormIdle
    /\ OffsetIdle
    /\ ini_file \in ConfigFiles
    /\ ini_config = NoConfig
    /\ ini_read = 0
    /\ ini_raised = FALSE

iniRest == <<pc, a_block, idx, trial_list, condition, blocks, trial_feedback,
             overwrite, tag, main_surface, current_block, current_trial,
             quit_now, datalist, block_rt, block_acc, header, trialLocals,
             blockLocals, unitVars, fileVars, stimVars, rt_float, rt_ms,
             dialogVars, formVars, normVars>>

\* main(): config = load_config_file(configfile, "USER", [...])
LoadConfigFile ==
    /\ ~ini_config.loaded
    /\ ini_config' = LoadedConfig(ini_file, Expected)
    /\ UNCHANGED <<ini_file, ini_read, ini_raised>>
    /\ UNCHANGED iniRest

\* main(): the next config.get / getint / getboolean("USER", option)
ReadOption ==
    /\ ini_config.loaded
    /\ ~ini_raised
    /\ ini_read < Len(ReadOrder)
    /\ IF ReadOrder[ini_read + 1] \in ini_config.options
       THEN ini_read' = ini_read + 1 /\ UNCHANGED ini_raised
       ELSE ini_raised' = TRUE /\ UNCHANGED ini_read
    /\ UNCHANGED <<ini_file, ini_config>>
    /\ UNCHANGED iniRest

NextConfig ==
    \/ LoadConfigFile
    \/ ReadOption

SpecConfig == InitConfig /\ [][NextConfig]_vars

\* C38: when load_config_file returns the configuration read from the file,
\* every option main reads from USER is present and no read fails
C38_FileConfigComplete ==
    ini_config.from_file => (Options \subseteq ini_config.options /\ ~ini_raised)

\* ------------------------------------- run_trial: the normalized offset
\* offsets run from -MaxOffset to MaxOffset
MaxOffset == 6
MaxDiameter == 8

\* a trial specification with an integer offset and a positive diameter
InitOffset ==
    /\ InitSession(DefaultConfig)
    /\ InitUnit
    /\ InitLaunch
    /\ ConversionIdle
    /\ FormIdle
    /\ ConfigIdle
    /\ norm_pc = "spec"
    /\ norm_k \in (-MaxOffset)..MaxOffset
    /\ norm_d \in 1..MaxDiameter
    /\ norm_x = 0
    /\ norm_loc = 0

normRest == <<pc, a_block, idx, trial_list, condition, blocks, trial_feedback,
              overwrite, tag, main_surface, current_block, current_trial,
              quit_now, datalist, block_rt, block_acc, header, trialLocals,
              blockLocals, unitVars, fileVars, stimVars, rt_float, rt_ms,
              dialogVars, formVars, iniVars>>

\* run_trial: x_offset *= self.stim_diameter
ScaleXOffset ==
    /\ norm_pc = "spec"
    /\ norm_x' = norm_k * norm_d
    /\ norm_pc' = "scaled"
    /\ UNCHANGED <<norm_k, norm_d, norm_loc>>
    /\ UNCHANGED normRest

\* run_trial: trial_data holds x_offset // self.stim_diameter
WriteXLoc ==
    /\ norm_pc = "scaled"
    /\ norm_loc' = NormalizedOffset(norm_x, norm_d)
    /\ norm_pc' = "written"
    /\ UNCHANGED <<norm_k, norm_d, norm_x>>
    /\ UNCHANGED normRest

NextOffset ==
    \/ ScaleXOffset
    \/ WriteXLoc

SpecOffset == InitOffset /\ [][NextOffset]_vars

\* C39: the normalized offset written to the record equals the integer offset
\* of the trial specification, (k * d) // d = k for every integer k and
\* positive d, negative offsets included
C39_NormalizedIsOffset ==
    /\ norm_pc = "scaled" => norm_x = norm_k * norm_d
    /\ norm_pc = "written" => (norm_loc = norm_k /\ norm_loc = (norm_k * norm_d) \div norm_d)

\* a negative offset at the largest diameter has been written
C39_Witness ==
    /\ norm_pc = "written"
    /\ norm_k = -MaxOffset
    /\ norm_d = MaxDiameter
    /\ norm_x = (-MaxOffset) * MaxDiameter
    /\ norm_loc = -MaxOffset

====
